---- MODULE Spec2Model ----
(***************************************************************************)
(* Model of findComponentsInSourceFile (the props scraper): the component  *)
(* locator, the recursive type classifier typeToPropSpec and the reference *)
(* table storeRef, run as a call-stack machine over a type graph supplied  *)
(* by the type-graph accessor (ts-morph).                                  *)
(*                                                                         *)
(* The type graph below is the one the TypeScript compiler builds for      *)
(*                                                                         *)
(*   type Foo = { foo?: Foo }                                              *)
(*   interface Tree { kids: Tree[]; leaf: Leaf }                           *)
(*   interface Leaf { up: Tree | Leaf; cb: (t: Tree) => void }             *)
(*   type Json = string | Json[]                                           *)
(*   type RecF = (f: RecF) => void                                         *)
(*   interface PropsA { p: <P>; q: <Q> }                                   *)
(*   export class TestA extends React.Component<PropsA, {}> {}             *)
(*   export class TestB extends React.Component<PropsA, {}> {}             *)
(*   export class TestC extends React.Component<{ foo: string }, {}> {}    *)
(*   export class TestS extends React.Component<string, {}> {}             *)
(*   export class TestE                                                    *)
(*                  extends React.Component<React.SyntheticEvent, {}> {}   *)
(*   export class NoArg extends React.Component {}                         *)
(*   export class Plain extends Base<PropsA> {}                            *)
(*   class BaseComp extends React.Component<PropsA, {}> {}                 *)
(*   export class Derived extends BaseComp {}                              *)
(*   export class Mixed extends <a base type without symbol whose own      *)
(*                               base type is React.Component<PropsA, {}>> *)
(*                                                                         *)
(* where <P> ranges over MemberTypes and <Q> over SecondMemberTypes in the  *)
(* combinations of Wirings (the variable wiring); MemberTypes holds,       *)
(* besides the types above, two                                            *)
(* distinct inline { a: string }                                           *)
(* types, React.SyntheticEvent, (e: React.SyntheticEvent) => void, the     *)
(* "T | undefined" form of several of them, string[], [string, boolean],   *)
(* string | false | true, "foo" | "bar" | number and the generic callable   *)
(* <T extends string>(x: T, y?: string) => string | undefined, the literal *)
(* 1 and the arrays (string | undefined)[] and                             *)
(* (React.SyntheticEvent | undefined)[].                                   *)
(***************************************************************************)
EXTENDS Integers, Sequences, FiniteSets, TLC

\* ---------------------------------------------------------------- bounds

\* classes exported by one source file
MaxClasses == 2

\* passes (calls of findComponentsInSourceFile) in one behaviour
MaxPasses == 2

\* call-stack frames the engine allows before it raises RangeError
StackLimit == 12

\* ------------------------------------------------------- symbols (ts-morph)

NoSym == "none"
NoType == "none"
NullName == "<null>"

\* decl: the kind of sym.getDeclarations()[0] ("signature", "typeParameter",
\* "other"); params: the parameters' types; constraint: decl.getConstraint()
Sym0 ==
  [fqn |-> "", name |-> "", decl |-> "other", params |-> <<>>, ret |-> NoType,
   constraint |-> NoType]

Symbols ==
  [s \in {"Foo", "Tree", "Leaf", "PropsA", "Anon1", "Anon2", "Array",
          "SyntheticEvent", "Handler", "TreeCb", "Json", "RecF",
          "Component", "Base", "State", "FooProps", "BaseComp",
          "T", "GenericFn"} |->
    CASE s = "Foo" -> [Sym0 EXCEPT !.fqn = "__type", !.name = "__type"]
      [] s = "Tree" -> [Sym0 EXCEPT !.fqn = "Tree", !.name = "Tree"]
      [] s = "Leaf" -> [Sym0 EXCEPT !.fqn = "Leaf", !.name = "Leaf"]
      [] s = "PropsA" -> [Sym0 EXCEPT !.fqn = "PropsA", !.name = "PropsA"]
      [] s = "Anon1" -> [Sym0 EXCEPT !.fqn = "__type", !.name = "__type"]
      [] s = "Anon2" -> [Sym0 EXCEPT !.fqn = "__type", !.name = "__type"]
      [] s = "Array" -> [Sym0 EXCEPT !.fqn = "Array", !.name = "Array"]
      [] s = "SyntheticEvent" ->
           [Sym0 EXCEPT !.fqn = "React.SyntheticEvent",
                        !.name = "SyntheticEvent"]
      [] s = "Handler" ->
           [Sym0 EXCEPT !.fqn = "__type", !.name = "__type",
                        !.decl = "signature",
                        !.params = <<"Event">>,
                        !.ret = "void"]
      [] s = "TreeCb" ->
           [Sym0 EXCEPT !.fqn = "__type", !.name = "__type",
                        !.decl = "signature",
                        !.params = <<"Tree">>,
                        !.ret = "void"]
      [] s = "Json" -> [Sym0 EXCEPT !.fqn = "Json", !.name = "Json"]
      [] s = "RecF" ->
           [Sym0 EXCEPT !.fqn = "__type", !.name = "__type",
                        !.decl = "signature",
                        !.params = <<"RecF">>,
                        !.ret = "void"]
      [] s = "Component" ->
           [Sym0 EXCEPT !.fqn = "React.Component", !.name = "Component"]
      [] s = "Base" -> [Sym0 EXCEPT !.fqn = "Base", !.name = "Base"]
      [] s = "State" -> [Sym0 EXCEPT !.fqn = "__type", !.name = "__type"]
      [] s = "FooProps" -> [Sym0 EXCEPT !.fqn = "__type", !.name = "__type"]
      [] s = "BaseComp" ->
           [Sym0 EXCEPT !.fqn = "BaseComp", !.name = "BaseComp"]
      [] s = "T" ->
           [Sym0 EXCEPT !.fqn = "T", !.name = "T", !.decl = "typeParameter",
                        !.constraint = "string"]
      [] s = "GenericFn" ->
           [Sym0 EXCEPT !.fqn = "__type", !.name = "__type",
                        !.decl = "signature",
                        !.params = <<"T", "StringOpt">>,
                        !.ret = "StringOpt"]]

\* --------------------------------------------------------- types (ts-morph)

\* One record per type-graph node; the node's identity is its key in Types.
Type0 ==
  [symbol |-> NoSym, aliasSymbol |-> NoSym, text |-> "",
   isNullable |-> FALSE, nonNullable |-> NoType,
   isVoid |-> FALSE, isString |-> FALSE, isNumber |-> FALSE,
   isBoolean |-> FALSE, isLiteral |-> FALSE, value |-> <<>>,
   isBooleanLiteral |-> FALSE,
   isArray |-> FALSE, elem |-> NoType,
   isUnion |-> FALSE, unionTypes |-> <<>>,
   isObject |-> FALSE, isAnonymous |-> FALSE, properties |-> <<>>,
   isTuple |-> FALSE, tupleElements |-> <<>>,
   baseTypes |-> <<>>, typeArguments |-> <<>>]

\* "T | undefined" written inline (also the type of an optional property)
Optional(t, txt) ==
  [Type0 EXCEPT !.text = txt, !.isNullable = TRUE, !.nonNullable = t,
                !.isUnion = TRUE, !.unionTypes = <<"undefined", t>>]

Record(sym, txt, anon, props) ==
  [Type0 EXCEPT !.symbol = sym, !.text = txt, !.isObject = TRUE,
                !.isAnonymous = anon, !.properties = props]

ArrayOf(t, txt) ==
  [Type0 EXCEPT !.symbol = "Array", !.text = txt, !.isObject = TRUE,
                !.isArray = TRUE, !.elem = t]

Callable(sym, alias, txt) ==
  [Type0 EXCEPT !.symbol = sym, !.aliasSymbol = alias, !.text = txt,
                !.isObject = TRUE, !.isAnonymous = TRUE]

TypeIds ==
  {"string", "void", "undefined",
   "Foo", "FooOpt", "Tree", "TreeArr", "Leaf", "TreeOrLeaf", "TreeCb",
   "Anon1", "Anon2", "Event", "EventOpt", "Handler", "HandlerOpt",
   "StringOpt", "Json", "JsonArr", "RecF",
   "PropsA", "State", "RC_PropsA", "RC_String", "RC_NoArg", "Base",
   "number", "boolean", "true", "false", "litFoo", "litBar",
   "VoidOpt", "StrOrBools", "FooBarNum", "StringArr", "Pair",
   "FooProps", "RC_FooProps", "BaseComp", "Mixin", "T", "GenericFn",
   "lit1", "StringOptArr", "EventOptArr", "RC_Event"}

Types ==
  [t \in TypeIds |->
    CASE t = "string" -> [Type0 EXCEPT !.text = "string", !.isString = TRUE]
      [] t = "void" -> [Type0 EXCEPT !.text = "void", !.isVoid = TRUE]
      [] t = "undefined" ->
           [Type0 EXCEPT !.text = "undefined", !.isVoid = TRUE]
      [] t = "Foo" ->
           [Record("Foo", "Foo", TRUE,
                   <<[name |-> "foo", type |-> "FooOpt"]>>)
              EXCEPT !.aliasSymbol = "Foo"]
      [] t = "FooOpt" -> Optional("Foo", "Foo | undefined")
      [] t = "Tree" ->
           Record("Tree", "Tree", FALSE,
                  <<[name |-> "kids", type |-> "TreeArr"],
                    [name |-> "leaf", type |-> "Leaf"]>>)
      [] t = "TreeArr" -> ArrayOf("Tree", "Tree[]")
      [] t = "Leaf" ->
           Record("Leaf", "Leaf", FALSE,
                  <<[name |-> "up", type |-> "TreeOrLeaf"],
                    [name |-> "cb", type |-> "TreeCb"]>>)
      [] t = "TreeOrLeaf" ->
           [Type0 EXCEPT !.text = "Tree | Leaf", !.isUnion = TRUE,
                         !.unionTypes = <<"Tree", "Leaf">>]
      [] t = "TreeCb" -> Callable("TreeCb", NoSym, "(t: Tree) => void")
      [] t = "Anon1" ->
           Record("Anon1", "{ a: string; }", TRUE,
                  <<[name |-> "a", type |-> "string"]>>)
      [] t = "Anon2" ->
           Record("Anon2", "{ a: string; }", TRUE,
                  <<[name |-> "a", type |-> "string"]>>)
      [] t = "Event" ->
           Record("SyntheticEvent", "React.SyntheticEvent", FALSE,
                  <<[name |-> "type", type |-> "string"]>>)
      [] t = "EventOpt" -> Optional("Event", "React.SyntheticEvent | undefined")
      [] t = "Handler" ->
           Callable("Handler", NoSym, "(e: React.SyntheticEvent) => void")
      [] t = "HandlerOpt" ->
           Optional("Handler", "((e: React.SyntheticEvent) => void) | undefined")
      [] t = "StringOpt" -> Optional("string", "string | undefined")
      [] t = "Json" ->
           [Type0 EXCEPT !.aliasSymbol = "Json", !.text = "Json",
                         !.isUnion = TRUE,
                         !.unionTypes = <<"string", "JsonArr">>]
      [] t = "JsonArr" -> ArrayOf("Json", "Json[]")
      [] t = "RecF" -> Callable("RecF", "RecF", "RecF")
      [] t = "PropsA" -> Record("PropsA", "PropsA", FALSE, <<>>)
      [] t = "State" -> Record("State", "{}", TRUE, <<>>)
      [] t = "RC_PropsA" ->
           [Record("Component", "React.Component<PropsA, {}>", FALSE, <<>>)
              EXCEPT !.typeArguments = <<"PropsA", "State">>]
      [] t = "RC_String" ->
           [Record("Component", "React.Component<string, {}>", FALSE, <<>>)
              EXCEPT !.typeArguments = <<"string", "State">>]
      [] t = "RC_Event" ->
           [Record("Component", "React.Component<React.SyntheticEvent, {}>",
                   FALSE, <<>>)
              EXCEPT !.typeArguments = <<"Event", "State">>]
      [] t = "RC_NoArg" ->
           Record("Component", "React.Component", FALSE, <<>>)
      [] t = "Base" ->
           [Record("Base", "Base<PropsA>", FALSE, <<>>)
              EXCEPT !.typeArguments = <<"PropsA">>]
      [] t = "number" -> [Type0 EXCEPT !.text = "number", !.isNumber = TRUE]
      [] t = "boolean" ->
           [Type0 EXCEPT !.text = "boolean", !.isBoolean = TRUE,
                         !.isUnion = TRUE, !.unionTypes = <<"false", "true">>]
      [] t = "true" ->
           [Type0 EXCEPT !.text = "true", !.isBooleanLiteral = TRUE]
      [] t = "false" ->
           [Type0 EXCEPT !.text = "false", !.isBooleanLiteral = TRUE]
      [] t = "litFoo" ->
           [Type0 EXCEPT !.text = "\"foo\"", !.isLiteral = TRUE,
                         !.value = <<"string", "foo">>]
      [] t = "litBar" ->
           [Type0 EXCEPT !.text = "\"bar\"", !.isLiteral = TRUE,
                         !.value = <<"string", "bar">>]
      [] t = "VoidOpt" -> Optional("void", "void | undefined")
      [] t = "StrOrBools" ->
           [Type0 EXCEPT !.text = "string | boolean", !.isUnion = TRUE,
                         !.unionTypes = <<"string", "false", "true">>]
      [] t = "FooBarNum" ->
           [Type0 EXCEPT !.text = "number | \"foo\" | \"bar\"",
                         !.isUnion = TRUE,
                         !.unionTypes = <<"number", "litFoo", "litBar">>]
      [] t = "StringArr" -> ArrayOf("string", "string[]")
      [] t = "Pair" ->
           [Type0 EXCEPT !.text = "[string, boolean]", !.isObject = TRUE,
                         !.isTuple = TRUE,
                         !.tupleElements = <<"string", "boolean">>]
      [] t = "FooProps" ->
           Record("FooProps", "{ foo: string; }", TRUE,
                  <<[name |-> "foo", type |-> "string"]>>)
      [] t = "RC_FooProps" ->
           [Record("Component", "React.Component<{ foo: string; }, {}>",
                   FALSE, <<>>)
              EXCEPT !.typeArguments = <<"FooProps", "State">>]
      [] t = "BaseComp" ->
           [Record("BaseComp", "BaseComp", FALSE, <<>>)
              EXCEPT !.baseTypes = <<"RC_PropsA">>]
      [] t = "Mixin" ->
           [Type0 EXCEPT !.text = "Mixin", !.isObject = TRUE,
                         !.baseTypes = <<"RC_PropsA">>]
      [] t = "T" -> [Type0 EXCEPT !.symbol = "T", !.text = "T"]
      [] t = "StringOptArr" ->
           ArrayOf("StringOpt", "(string | undefined)[]")
      [] t = "EventOptArr" ->
           ArrayOf("EventOpt", "(React.SyntheticEvent | undefined)[]")
      [] t = "lit1" ->
           [Type0 EXCEPT !.text = "1", !.isLiteral = TRUE,
                         !.value = <<"number", "1">>]
      [] t = "GenericFn" ->
           Callable("GenericFn", NoSym,
                    "<T extends string>(x: T, y?: string) => string | undefined")]

\* the types a property of PropsA can be declared with
MemberTypes ==
  {"string", "StringOpt", "Foo", "FooOpt", "Tree", "Leaf", "TreeArr",
   "Anon1", "Anon2", "Event", "EventOpt", "Handler", "HandlerOpt",
   "Json", "RecF",
   "VoidOpt", "StrOrBools", "FooBarNum", "StringArr", "Pair", "GenericFn",
   "lit1", "StringOptArr", "EventOptArr"}

\* the types the second property of PropsA can be declared with
SecondMemberTypes ==
  {"string", "Tree", "Anon2", "EventOpt", "HandlerOpt"}

\* the types of the first property that are combined with every type of the
\* second; the other types of the first property go with q: string
PairedMemberTypes == {"string", "Foo", "Tree", "Anon1", "Event", "Handler"}

\* the declarations of PropsA
Wirings ==
  {w \in [p : MemberTypes, q : SecondMemberTypes] :
     w.q = "string" \/ w.p \in PairedMemberTypes}

\* exported class declarations: name and classDec.getBaseTypes()
ClassDecls ==
  [c \in {"TestA", "TestB", "TestC", "TestS", "TestE", "NoArg", "Plain",
          "Derived", "Mixed"} |->
    CASE c = "TestA" -> [name |-> "TestA", baseTypes |-> <<"RC_PropsA">>]
      [] c = "TestB" -> [name |-> "TestB", baseTypes |-> <<"RC_PropsA">>]
      [] c = "TestS" -> [name |-> "TestS", baseTypes |-> <<"RC_String">>]
      [] c = "TestE" -> [name |-> "TestE", baseTypes |-> <<"RC_Event">>]
      [] c = "NoArg" -> [name |-> "NoArg", baseTypes |-> <<"RC_NoArg">>]
      [] c = "TestC" -> [name |-> "TestC", baseTypes |-> <<"RC_FooProps">>]
      [] c = "Plain" -> [name |-> "Plain", baseTypes |-> <<"Base">>]
      [] c = "Derived" -> [name |-> "Derived", baseTypes |-> <<"BaseComp">>]
      [] c = "Mixed" -> [name |-> "Mixed", baseTypes |-> <<"Mixin">>]]

\* ------------------------------------------------------------ PropTypes

Undefined == [kind |-> "undefined"]

anyPropType == [kind |-> "any"]
voidPropType == [kind |-> "void"]
stringPropType == [kind |-> "string"]
numberPropType == [kind |-> "number"]
booleanPropType == [kind |-> "boolean"]
reactElementPropType == [kind |-> "reactElement"]
reactNodePropType == [kind |-> "reactNode"]
eventPropType == [kind |-> "event"]

literalPropTypeWidened(value) ==
  IF value[1] = "string" THEN [kind |-> "string"] ELSE [kind |-> "number"]

literalPropType(value) == [kind |-> "literal", value |-> value]

refPropType(refIndex) == [kind |-> "ref", refIndex |-> refIndex]
unionPropTypeReversed(options) ==
  [kind |-> "union",
   options |-> [j \in 1..Len(options) |-> options[Len(options) + 1 - j]]]

unionPropType(options) == [kind |-> "union", options |-> options]

arrayPropType(elementPropType) ==
  [kind |-> "array", elementPropType |-> elementPropType]
fnPropType(argTypes, returnType) ==
  [kind |-> "fn", argTypes |-> argTypes, returnType |-> returnType]

objectSpec(name, members) == [name |-> name, members |-> members]

PropSpec(propType, isNullable) ==
  [propType |-> propType, isNullable |-> isNullable]

knownSymbolPropTypes(fqn) ==
  CASE fqn = "React.SyntheticEvent" -> eventPropType
    [] fqn = "React.MouseEvent" -> eventPropType
    [] fqn = "React.ReactElement" -> reactElementPropType
    [] fqn = "React.ReactNode" -> reactNodePropType
    [] OTHER -> Undefined

placeholderRef == objectSpec("__placeholder", <<>>)

\* ---------------------------------------------------------------- state

VARIABLES
  status,      \* "idle", "running", "returned", "thrown", "overflow"
  passNo,      \* number of passes started
  classes,     \* the class declarations of the source file, in export order
  wiring,      \* the declared types of PropsA's properties p and q
  ci,          \* position of the forEach over the class declarations (1-based)
  components,  \* components: ComponentSpec[]
  refs,        \* refs: ObjectSpec[]   (refs[ndx] of the code is refs[ndx + 1])
  refNdxMap,   \* refNdxMap: Map<Type, number>
  stack,       \* the call stack, innermost frame last
  ret,         \* the value the frame that just returned handed back
  result,      \* the FinderResult the current pass returned
  reservedFor, \* history: the type each refs slot was reserved for
  assigned,    \* history: the index storeRef gave back for each type
  walks,       \* history: how often each type's structure was examined
  memberWalks, \* history: how often storeRef enumerated each type's members
  hits,        \* history: calls of storeRef answered from the memo
  earlier      \* history: the FinderResults the passes returned so far

vars ==
  <<status, passNo, classes, wiring, ci, components, refs, refNdxMap, stack,
    ret, result, reservedFor, assigned, walks, memberWalks, hits, earlier>>

NoRet == [kind |-> "none"]
IndexRet(ndx) == [kind |-> "index", index |-> ndx]
SpecRet(propSpec) == [kind |-> "propSpec", propSpec |-> propSpec]
FnRet(propType) == [kind |-> "fnPropType", propType |-> propType]

EmptyMap == [t \in {} |-> 0]

NoResult == [components |-> <<>>, refs |-> <<>>]

\* ------------------------------------------------- type-graph accessor

\* typ.getProperties(), each with s.getTypeAtLocation(reference)
getProperties(typ) ==
  IF typ = "PropsA"
    THEN <<[name |-> "p", type |-> wiring.p], [name |-> "q", type |-> wiring.q]>>
    ELSE Types[typ].properties

\* typ.getSymbol() || typ.getAliasSymbol()
SymbolOrAlias(typ) ==
  IF Types[typ].symbol # NoSym THEN Types[typ].symbol
  ELSE Types[typ].aliasSymbol

isTypeVoid(typ) == Types[typ].isVoid

getConstraintTypeFromTypeParam(typ) ==
  LET sym == SymbolOrAlias(typ) IN
    IF sym # NoSym /\ Symbols[sym].decl = "typeParameter"
      THEN Symbols[sym].constraint
      ELSE NoType

\* TypeGuards.isSignaturedDeclaration(sym.getDeclarations()[0])
IsSignature(sym) == Symbols[sym].decl = "signature"

\* the type typeToPropSpec is called with for a parameter
ParamType(typ) ==
  IF getConstraintTypeFromTypeParam(typ) # NoType
    THEN getConstraintTypeFromTypeParam(typ)
    ELSE typ

\* ---------------------------------------------------- component locator

SeqsUpTo(S, n) == UNION {[1..k -> S] : k \in 0..n}

isTypeReactComponentAnySymbol(t) ==
  \/ Types[t].symbol # NoSym
  \/ \E k \in 1..Len(Types[t].baseTypes) :
       Types[Types[t].baseTypes[k]].symbol # NoSym

RECURSIVE isTypeReactComponent(_)
isTypeReactComponent(t) ==
  IF Types[t].symbol # NoSym
    THEN Symbols[Types[t].symbol].fqn = "React.Component"
    ELSE \E k \in 1..Len(Types[t].baseTypes) :
           isTypeReactComponent(Types[t].baseTypes[k])

\* classDec.getBaseTypes().find(isTypeReactComponent)
FindBaseType(c) ==
  LET bs == ClassDecls[c].baseTypes
      found == {k \in 1..Len(bs) : isTypeReactComponent(bs[k])}
  IN IF found = {} THEN NoType
     ELSE bs[CHOOSE k \in found : \A j \in found : k <= j]

PropTypeArgSecond(baseType) ==
  IF Len(Types[baseType].typeArguments) < 2 THEN NoType
  ELSE Types[baseType].typeArguments[2]

PropTypeArgOrEmpty(baseType) ==
  IF Len(Types[baseType].typeArguments) = 0 THEN "State"
  ELSE Types[baseType].typeArguments[1]

\* baseType.getTypeArguments()[0]
PropTypeArg(baseType) ==
  IF Len(Types[baseType].typeArguments) = 0 THEN NoType
  ELSE Types[baseType].typeArguments[1]

HasPropsArg(c) ==
  FindBaseType(c) # NoType /\ PropTypeArg(FindBaseType(c)) # NoType

\* the source files: the exported classes, each declared once, and, when
\* one of them binds PropsA, the declared types of PropsA's two properties
SourceFiles ==
  {sf \in [classes : {cs \in SeqsUpTo(DOMAIN ClassDecls, MaxClasses) :
                        \A i \in 1..Len(cs) : \A j \in 1..Len(cs) :
                          cs[i] = cs[j] => i = j},
           wiring : Wirings] :
     \/ \E k \in 1..Len(sf.classes) :
          HasPropsArg(sf.classes[k])
            /\ PropTypeArg(FindBaseType(sf.classes[k])) = "PropsA"
     \/ sf.wiring = [p |-> "string", q |-> "string"]}

\* ------------------------------------------------------- type classifier

\* the if/else chain of typeToPropSpec: the first rule that applies
Dispatch(knownPropType, fnProp, typ) ==
  CASE knownPropType.kind # "undefined" -> "known"
    [] fnProp.kind # "undefined" -> "fn"
    [] isTypeVoid(typ) -> "void"
    [] Types[typ].isString -> "string"
    [] Types[typ].isNumber -> "number"
    [] Types[typ].isBoolean -> "boolean"
    [] Types[typ].isLiteral -> "literal"
    [] Types[typ].isBooleanLiteral -> "booleanLiteral"
    [] Types[typ].isArray -> "array"
    [] Types[typ].isUnion -> "union"
    [] Types[typ].isObject -> "object"
    [] OTHER -> "any"

\* the propType of the rules that need no further call
Immediate(rule, knownPropType, fnProp, typ) ==
  CASE rule = "known" -> knownPropType
    [] rule = "fn" -> fnProp
    [] rule = "void" -> voidPropType
    [] rule = "string" -> stringPropType
    [] rule = "number" -> numberPropType
    [] rule = "boolean" -> booleanPropType
    [] rule = "literal" -> literalPropType(Types[typ].value)
    [] rule = "booleanLiteral" ->
         literalPropType(<<"boolean",
                           IF Types[typ].text = "true" THEN "true" ELSE "false">>)
    [] OTHER -> anyPropType

\* typ after "if (isNullable) typ = typ.getNonNullableType()"
Unwrap(typ) ==
  IF Types[typ].isNullable THEN Types[typ].nonNullable ELSE typ

KnownOfNothing(sym) == Undefined

\* knownSymbolPropTypes[sym.getFullyQualifiedName()], sym defined
KnownOf(sym) ==
  IF sym # NoSym THEN knownSymbolPropTypes(Symbols[sym].fqn) ELSE Undefined

propertyToObjectMember(name, propSpec) ==
  [name |-> name, isNullable |-> propSpec.isNullable,
   propType |-> propSpec.propType]

\* ---------------------------------------------------------- reference table

\* variant: the memo keyed by the type's rendered text
MemoKeyByText(typ) == Types[typ].text

\* refNdxMap.get(typ): the key is the Type object itself
MemoKey(typ) == typ

\* variant: the lookup never finds an entry
MemoHasNever(map, typ) == FALSE

MemoHas(map, typ) == MemoKey(typ) \in DOMAIN map

MemoGet(map, typ) == map[MemoKey(typ)]

\* variant: the index is read from refs.length after the push
MemoSetAfterPush(map, typ, ndx) ==
  [k \in DOMAIN map \cup {MemoKey(typ)} |->
     IF k = MemoKey(typ) THEN ndx + 1 ELSE map[k]]

\* variant: nothing is recorded before the members are examined
MemoSetDeferred(map, typ, ndx) == map

MemoSet(map, typ, ndx) ==
  [k \in DOMAIN map \cup {MemoKey(typ)} |->
     IF k = MemoKey(typ) THEN ndx ELSE map[k]]

\* let ndx = refs.length
NextIndex(table) == Len(table)

\* variant: the completed entry is written to the last slot
PatchRefLast(table, ndx, ref) == [table EXCEPT ![Len(table)] = ref]

\* refs[ndx] = ref
PatchRef(table, ndx, ref) == [table EXCEPT ![ndx + 1] = ref]

\* typ.isAnonymous() ? null : sym.getName()
RefNameDeclared(typ) ==
  IF Types[typ].aliasSymbol # NoSym
    THEN Symbols[Types[typ].aliasSymbol].name
    ELSE Symbols[Types[typ].symbol].name

RefName(typ) ==
  IF Types[typ].isAnonymous THEN NullName
  ELSE Symbols[Types[typ].symbol].name

\* ------------------------------------------------------------ call stack

Frame(fn, typ, sym) ==
  [fn |-> fn, typ |-> typ, sym |-> sym, pc |-> "enter", i |-> 1, acc |-> <<>>,
   isNullable |-> FALSE, known |-> Undefined, fnProp |-> Undefined, ndx |-> 0]

Top == stack[Len(stack)]
Pop == SubSeq(stack, 1, Len(stack) - 1)
Replace(f) == [stack EXCEPT ![Len(stack)] = f]
Call(f, g) == Append(Replace(f), g)

Running == status = "running" /\ Len(stack) <= StackLimit
InFrame(fn, pc) == Running /\ stack # <<>> /\ Top.fn = fn /\ Top.pc = pc

Bump(typ) == [walks EXCEPT ![typ] = @ + 1]
Assign(typ, ndx) ==
  [t \in DOMAIN assigned \cup {typ} |-> IF t = typ THEN ndx ELSE assigned[t]]

\* --------------------------------------------- findComponentsInSourceFile

NewRefNdxMapShared == refNdxMap

\* let refNdxMap: Map<Type, number> = new Map(), inside the function body
NewRefNdxMap == EmptyMap

Init ==
  /\ status = "idle"
  /\ passNo = 0
  /\ \E sf \in SourceFiles : classes = sf.classes /\ wiring = sf.wiring
  /\ ci = 1
  /\ components = <<>>
  /\ refs = <<>>
  /\ refNdxMap = EmptyMap
  /\ stack = <<>>
  /\ ret = NoRet
  /\ result = NoResult
  /\ reservedFor = <<>>
  /\ assigned = EmptyMap
  /\ walks = [t \in TypeIds |-> 0]
  /\ memberWalks = [t \in TypeIds |-> 0]
  /\ hits = 0
  /\ earlier = <<>>

\* a call of findComponentsInSourceFile(sourceFile): fresh components, refs,
\* refNdxMap; the source file (classes, wiring) is the one Init chose
Start ==
  /\ status # "running"
  /\ passNo < MaxPasses
  /\ status' = "running"
  /\ passNo' = passNo + 1
  /\ ci' = 1
  /\ components' = <<>>
  /\ refs' = <<>>
  /\ refNdxMap' = NewRefNdxMap
  /\ stack' = <<>>
  /\ ret' = NoRet
  /\ reservedFor' = <<>>
  /\ assigned' = EmptyMap
  /\ walks' = [t \in TypeIds |-> 0]
  /\ memberWalks' = [t \in TypeIds |-> 0]
  /\ hits' = 0
  /\ result' = NoResult
  /\ UNCHANGED <<classes, wiring, earlier>>

AtClass == Running /\ stack = <<>> /\ ret.kind = "none" /\ ci <= Len(classes)

PropsCallClassified(propTypeArg) ==
  Frame("typeToPropSpec", propTypeArg, NoSym)

\* let propsRefIndex = storeRef(propTypeArg)
PropsCall(propTypeArg) == Frame("storeRef", propTypeArg, NoSym)

\* findComponentsInClass up to the call storeRef(propTypeArg)
FindComponentsInClass ==
  /\ AtClass
  /\ HasPropsArg(classes[ci])
  /\ stack' = <<PropsCall(PropTypeArg(FindBaseType(classes[ci])))>>
  /\ UNCHANGED <<status, passNo, classes, wiring, ci, components, refs,
                 refNdxMap, ret, result, reservedFor, assigned, walks,
                 memberWalks, hits, earlier>>

\* findComponentsInClass for a class without marker base type or props argument
SkipClass ==
  /\ AtClass
  /\ ~HasPropsArg(classes[ci])
  /\ ci' = ci + 1
  /\ UNCHANGED <<status, passNo, classes, wiring, components, refs, refNdxMap,
                 stack, ret, result, reservedFor, assigned, walks,
                 memberWalks, hits, earlier>>

\* findComponentsInClass after storeRef returned: components.push(component)
PushComponent ==
  /\ Running /\ stack = <<>> /\ ret.kind = "index"
  /\ components' =
       Append(components, [name |-> ClassDecls[classes[ci]].name,
                           propsRefIndex |-> ret.index])
  /\ ci' = ci + 1
  /\ ret' = NoRet
  /\ UNCHANGED <<status, passNo, classes, wiring, refs, refNdxMap, stack,
                 result, reservedFor, assigned, walks, memberWalks, hits,
                 earlier>>

\* return { components, refs }
ReturnResult ==
  /\ Running /\ stack = <<>> /\ ret.kind = "none" /\ ci > Len(classes)
  /\ status' = "returned"
  /\ result' = [components |-> components, refs |-> refs]
  /\ earlier' = Append(earlier, [components |-> components, refs |-> refs])
  /\ UNCHANGED <<passNo, classes, wiring, ci, components, refs, refNdxMap,
                 stack, ret, reservedFor, assigned, walks, memberWalks, hits>>

\* the engine's call stack is exhausted: RangeError ends the pass
RangeError ==
  /\ status = "running"
  /\ Len(stack) > StackLimit
  /\ status' = "overflow"
  /\ UNCHANGED <<passNo, classes, wiring, ci, components, refs, refNdxMap,
                 stack, ret, result, reservedFor, assigned, walks,
                 memberWalks, hits, earlier>>

\* ---------------------------------------------------------------- storeRef

\* refNdxMap.get(typ) is defined: return existingIndex
StoreRefHit ==
  /\ InFrame("storeRef", "enter")
  /\ MemoHas(refNdxMap, Top.typ)
  /\ stack' = Pop
  /\ ret' = IndexRet(MemoGet(refNdxMap, Top.typ))
  /\ assigned' = Assign(Top.typ, MemoGet(refNdxMap, Top.typ))
  /\ hits' = hits + 1
  /\ UNCHANGED <<status, passNo, classes, wiring, ci, components, refs,
                 refNdxMap, result, reservedFor, walks, memberWalks, earlier>>

\* reserve the slot, record it in the memo, then typ.getSymbolOrThrow()
StoreRefReserve ==
  /\ InFrame("storeRef", "enter")
  /\ ~MemoHas(refNdxMap, Top.typ)
  /\ LET ndx == NextIndex(refs) IN
       /\ refs' = Append(refs, placeholderRef)
       /\ refNdxMap' = MemoSet(refNdxMap, Top.typ, ndx)
       /\ reservedFor' = Append(reservedFor, Top.typ)
       /\ IF Types[Top.typ].symbol = NoSym
            THEN /\ status' = "thrown"
                 /\ UNCHANGED <<stack, walks, memberWalks>>
            ELSE /\ stack' = Replace([Top EXCEPT !.pc = "members", !.ndx = ndx,
                                                 !.sym = Types[Top.typ].symbol])
                 /\ walks' = Bump(Top.typ)
                 /\ memberWalks' = [memberWalks EXCEPT ![Top.typ] = @ + 1]
                 /\ UNCHANGED status
  /\ UNCHANGED <<passNo, classes, wiring, ci, components, ret, result, assigned,
                 hits, earlier>>

\* the map over typ.getProperties(): propertyToObjectMember(s, reference)
StoreRefMember ==
  /\ InFrame("storeRef", "members")
  /\ ret.kind = "none"
  /\ Top.i <= Len(getProperties(Top.typ))
  /\ stack' = Append(stack, Frame("typeToPropSpec",
                                  getProperties(Top.typ)[Top.i].type, NoSym))
  /\ UNCHANGED <<status, passNo, classes, wiring, ci, components, refs,
                 refNdxMap, ret, result, reservedFor, assigned, walks,
                 memberWalks, hits, earlier>>

StoreRefCollect ==
  /\ InFrame("storeRef", "members")
  /\ ret.kind = "propSpec"
  /\ stack' = Replace([Top EXCEPT
       !.acc = Append(@, propertyToObjectMember(
                           getProperties(Top.typ)[Top.i].name, ret.propSpec)),
       !.i = @ + 1])
  /\ ret' = NoRet
  /\ UNCHANGED <<status, passNo, classes, wiring, ci, components, refs,
                 refNdxMap, result, reservedFor, assigned, walks,
                 memberWalks, hits, earlier>>

\* refs[ndx] = objectSpec(name, members); return ndx
StoreRefPatch ==
  /\ InFrame("storeRef", "members")
  /\ ret.kind = "none"
  /\ Top.i > Len(getProperties(Top.typ))
  /\ refs' = PatchRef(refs, Top.ndx, objectSpec(RefName(Top.typ), Top.acc))
  /\ stack' = Pop
  /\ ret' = IndexRet(Top.ndx)
  /\ assigned' = Assign(Top.typ, Top.ndx)
  /\ UNCHANGED <<status, passNo, classes, wiring, ci, components, refNdxMap,
                 result, reservedFor, walks, memberWalks, hits, earlier>>

\* ----------------------------------------------------------- typeToPropSpec

\* the locals of typeToPropSpec before the call of symbolToFunctionPropType:
\* sym is read from the type as passed in, then the type is unwrapped
Locals(f) ==
  IF f.pc = "enter"
    THEN [f EXCEPT !.sym = SymbolOrAlias(f.typ),
                   !.isNullable = Types[f.typ].isNullable,
                   !.typ = Unwrap(f.typ),
                   !.known = KnownOf(SymbolOrAlias(f.typ)),
                   !.pc = "dispatch"]
    ELSE f

\* symbolToFunctionPropType(sym, reference) has a signature to walk
CallsSignature(f) ==
  f.pc = "enter" /\ SymbolOrAlias(f.typ) # NoSym /\ IsSignature(SymbolOrAlias(f.typ))

AtDispatch ==
  /\ Running /\ stack # <<>> /\ Top.fn = "typeToPropSpec"
  /\ Top.pc = "dispatch" \/ (Top.pc = "enter" /\ ~CallsSignature(Top))

RuleOf(f) == Dispatch(f.known, f.fnProp, f.typ)

\* fnPropType = symbolToFunctionPropType(sym, reference), sym a signature
TypeCallSignature ==
  /\ InFrame("typeToPropSpec", "enter")
  /\ CallsSignature(Top)
  /\ stack' = Call([Locals(Top) EXCEPT !.pc = "fnWait"],
                   Frame("symbolToFunctionPropType", Top.typ, SymbolOrAlias(Top.typ)))
  /\ walks' = Bump(Top.typ)
  /\ UNCHANGED <<status, passNo, classes, wiring, ci, components, refs,
                 refNdxMap, ret, result, reservedFor, assigned,
                 memberWalks, hits, earlier>>

TypeSignatureReturn ==
  /\ InFrame("typeToPropSpec", "fnWait")
  /\ ret.kind = "fnPropType"
  /\ stack' = Replace([Top EXCEPT !.fnProp = ret.propType, !.pc = "dispatch"])
  /\ ret' = NoRet
  /\ UNCHANGED <<status, passNo, classes, wiring, ci, components, refs,
                 refNdxMap, result, reservedFor, assigned, walks,
                 memberWalks, hits, earlier>>

\* the rules that return without a further call
TypeImmediate ==
  /\ AtDispatch
  /\ RuleOf(Locals(Top)) \notin {"array", "union", "object"}
  /\ LET f == Locals(Top) IN
       ret' = SpecRet(PropSpec(Immediate(RuleOf(f), f.known, f.fnProp, f.typ),
                               f.isNullable))
  /\ stack' = Pop
  /\ UNCHANGED <<status, passNo, classes, wiring, ci, components, refs,
                 refNdxMap, result, reservedFor, assigned, walks,
                 memberWalks, hits, earlier>>

\* typeToPropSpec(typ.getArrayElementTypeOrThrow(), reference)
TypeArrayCall ==
  /\ AtDispatch
  /\ RuleOf(Locals(Top)) = "array"
  /\ LET f == Locals(Top) IN
       IF Types[f.typ].elem = NoType
         THEN /\ status' = "thrown"
              /\ UNCHANGED <<stack, walks>>
         ELSE /\ stack' = Call([f EXCEPT !.pc = "array"],
                               Frame("typeToPropSpec", Types[f.typ].elem, NoSym))
              /\ walks' = Bump(f.typ)
              /\ UNCHANGED status
  /\ UNCHANGED <<passNo, classes, wiring, ci, components, refs, refNdxMap, ret,
                 result, reservedFor, assigned, memberWalks, hits, earlier>>

TypeArrayReturn ==
  /\ InFrame("typeToPropSpec", "array")
  /\ ret.kind = "propSpec"
  /\ ret' = SpecRet(PropSpec(arrayPropType(ret.propSpec.propType),
                             Top.isNullable))
  /\ stack' = Pop
  /\ UNCHANGED <<status, passNo, classes, wiring, ci, components, refs,
                 refNdxMap, result, reservedFor, assigned, walks,
                 memberWalks, hits, earlier>>

\* typ.getUnionTypes().map((t) => typeToPropSpec(t, reference).propType)
TypeUnionStart ==
  /\ AtDispatch
  /\ RuleOf(Locals(Top)) = "union"
  /\ stack' = Replace([Locals(Top) EXCEPT !.pc = "union", !.i = 1, !.acc = <<>>])
  /\ walks' = Bump(Locals(Top).typ)
  /\ UNCHANGED <<status, passNo, classes, wiring, ci, components, refs,
                 refNdxMap, ret, result, reservedFor, assigned,
                 memberWalks, hits, earlier>>

TypeUnionOption ==
  /\ InFrame("typeToPropSpec", "union")
  /\ ret.kind = "none"
  /\ Top.i <= Len(Types[Top.typ].unionTypes)
  /\ stack' = Append(stack, Frame("typeToPropSpec",
                                  Types[Top.typ].unionTypes[Top.i], NoSym))
  /\ UNCHANGED <<status, passNo, classes, wiring, ci, components, refs,
                 refNdxMap, ret, result, reservedFor, assigned, walks,
                 memberWalks, hits, earlier>>

TypeUnionCollect ==
  /\ InFrame("typeToPropSpec", "union")
  /\ ret.kind = "propSpec"
  /\ stack' = Replace([Top EXCEPT !.acc = Append(@, ret.propSpec.propType),
                                  !.i = @ + 1])
  /\ ret' = NoRet
  /\ UNCHANGED <<status, passNo, classes, wiring, ci, components, refs,
                 refNdxMap, result, reservedFor, assigned, walks,
                 memberWalks, hits, earlier>>

TypeUnionReturn ==
  /\ InFrame("typeToPropSpec", "union")
  /\ ret.kind = "none"
  /\ Top.i > Len(Types[Top.typ].unionTypes)
  /\ ret' = SpecRet(PropSpec(unionPropType(Top.acc), Top.isNullable))
  /\ stack' = Pop
  /\ UNCHANGED <<status, passNo, classes, wiring, ci, components, refs,
                 refNdxMap, result, reservedFor, assigned, walks,
                 memberWalks, hits, earlier>>

\* let refIndex = storeRef(typ)
TypeObjectCall ==
  /\ AtDispatch
  /\ RuleOf(Locals(Top)) = "object"
  /\ stack' = Call([Locals(Top) EXCEPT !.pc = "object"],
                   Frame("storeRef", Locals(Top).typ, NoSym))
  /\ UNCHANGED <<status, passNo, classes, wiring, ci, components, refs,
                 refNdxMap, ret, result, reservedFor, assigned, walks,
                 memberWalks, hits, earlier>>

\* propType = refPropType(refIndex)
TypeObjectReturn ==
  /\ InFrame("typeToPropSpec", "object")
  /\ ret.kind = "index"
  /\ ret' = SpecRet(PropSpec(refPropType(ret.index), Top.isNullable))
  /\ stack' = Pop
  /\ UNCHANGED <<status, passNo, classes, wiring, ci, components, refs,
                 refNdxMap, result, reservedFor, assigned, walks,
                 memberWalks, hits, earlier>>

\* ------------------------------------------------- symbolToFunctionPropType

\* decl.getParameters().map(...): typeToPropSpec(typ, reference) per parameter
FnParam ==
  /\ InFrame("symbolToFunctionPropType", "enter")
  /\ ret.kind = "none"
  /\ Top.i <= Len(Symbols[Top.sym].params)
  /\ stack' = Append(stack, Frame("typeToPropSpec",
                                  ParamType(Symbols[Top.sym].params[Top.i]),
                                  NoSym))
  /\ UNCHANGED <<status, passNo, classes, wiring, ci, components, refs,
                 refNdxMap, ret, result, reservedFor, assigned, walks,
                 memberWalks, hits, earlier>>

FnParamCollect ==
  /\ InFrame("symbolToFunctionPropType", "enter")
  /\ ret.kind = "propSpec"
  /\ stack' = Replace([Top EXCEPT !.acc = Append(@, ret.propSpec), !.i = @ + 1])
  /\ ret' = NoRet
  /\ UNCHANGED <<status, passNo, classes, wiring, ci, components, refs,
                 refNdxMap, result, reservedFor, assigned, walks,
                 memberWalks, hits, earlier>>

\* typeToPropSpec(decl.getReturnType(), reference)
FnReturnType ==
  /\ InFrame("symbolToFunctionPropType", "enter")
  /\ ret.kind = "none"
  /\ Top.i > Len(Symbols[Top.sym].params)
  /\ stack' = Call([Top EXCEPT !.pc = "returnType"],
                   Frame("typeToPropSpec", Symbols[Top.sym].ret, NoSym))
  /\ UNCHANGED <<status, passNo, classes, wiring, ci, components, refs,
                 refNdxMap, ret, result, reservedFor, assigned, walks,
                 memberWalks, hits, earlier>>

\* return fnPropType(paramPropSpec, returnPropSpec)
FnDone ==
  /\ InFrame("symbolToFunctionPropType", "returnType")
  /\ ret.kind = "propSpec"
  /\ ret' = FnRet(fnPropType(Top.acc, ret.propSpec))
  /\ stack' = Pop
  /\ UNCHANGED <<status, passNo, classes, wiring, ci, components, refs,
                 refNdxMap, result, reservedFor, assigned, walks,
                 memberWalks, hits, earlier>>

\* ------------------------------------------------------------ specification

Next ==
  \/ Start
  \/ FindComponentsInClass
  \/ SkipClass
  \/ PushComponent
  \/ ReturnResult
  \/ RangeError
  \/ StoreRefHit
  \/ StoreRefReserve
  \/ StoreRefMember
  \/ StoreRefCollect
  \/ StoreRefPatch
  \/ TypeCallSignature
  \/ TypeSignatureReturn
  \/ TypeImmediate
  \/ TypeArrayCall
  \/ TypeArrayReturn
  \/ TypeUnionStart
  \/ TypeUnionOption
  \/ TypeUnionCollect
  \/ TypeUnionReturn
  \/ TypeObjectCall
  \/ TypeObjectReturn
  \/ FnParam
  \/ FnParamCollect
  \/ FnReturnType
  \/ FnDone

Spec == Init /\ [][Next]_vars

\* ------------------------------------------------ shape of a pass's graph

\* the rule typeToPropSpec(typ) ends in
StaticRule(typ) ==
  LET f == Locals(Frame("typeToPropSpec", typ, NoSym)) IN
    IF f.known.kind # "undefined" THEN "known"
    ELSE IF f.sym # NoSym /\ IsSignature(f.sym) THEN "fn"
    ELSE RuleOf(f)

Elements(seq) == {seq[k] : k \in 1..Len(seq)}

\* the types typeToPropSpec(typ) classifies without going through storeRef
DirectCallees(typ) ==
  LET sym == SymbolOrAlias(typ)
      u == Unwrap(typ)
      sig == IF sym # NoSym /\ IsSignature(sym)
               THEN {ParamType(x) : x \in Elements(Symbols[sym].params)}
                      \cup {Symbols[sym].ret}
               ELSE {}
      struct == CASE StaticRule(typ) = "array" -> {Types[u].elem} \ {NoType}
                  [] StaticRule(typ) = "union" -> Elements(Types[u].unionTypes)
                  [] OTHER -> {}
  IN sig \cup struct

\* the types storeRef classifies for the record typeToPropSpec(typ) stores
MemberCallees(typ) ==
  IF StaticRule(typ) = "object"
    THEN {m.type : m \in Elements(Types[Unwrap(typ)].properties)}
    ELSE {}

RECURSIVE Closure(_, _)
Closure(S, step) ==
  LET N == S \cup UNION {IF step = "direct" THEN DirectCallees(t)
                         ELSE DirectCallees(t) \cup MemberCallees(t) : t \in S}
  IN IF N = S THEN S ELSE Closure(N, step)

\* types on a cycle of calls that passes through no storeRef
OnRecordFreeCycle ==
  {t \in TypeIds : t \in Closure(DirectCallees(t), "direct")}

\* the types a pass over the source file can reach
PassRoots ==
  LET args == {PropTypeArg(FindBaseType(c)) :
                 c \in {x \in Elements(classes) : HasPropsArg(x)}}
  IN args \cup (IF "PropsA" \in args THEN {wiring.p, wiring.q} ELSE {})

\* types from which such a cycle can be reached
ReachesRecordFreeCycle ==
  {t \in TypeIds : Closure({t}, "all") \cap OnRecordFreeCycle # {}}

CyclesPassThroughRecords == PassRoots \cap ReachesRecordFreeCycle = {}

Stored == Elements(reservedFor)

FirstIndex(typ) ==
  (CHOOSE i \in 1..Len(reservedFor) :
     reservedFor[i] = typ /\ \A j \in 1..(i - 1) : reservedFor[j] # typ) - 1

RECURSIVE RefIndices(_)
RefIndices(pt) ==
  CASE pt.kind \in {"ref", "partial"} -> {pt.refIndex}
    [] pt.kind = "array" -> RefIndices(pt.elementPropType)
    [] pt.kind = "union" ->
         UNION {RefIndices(pt.options[k]) : k \in 1..Len(pt.options)}
    [] pt.kind = "fn" ->
         UNION {RefIndices(pt.argTypes[k].propType) :
                  k \in 1..Len(pt.argTypes)}
           \cup RefIndices(pt.returnType.propType)
    [] OTHER -> {}

\* ------------------------------------------------------------------ claims

\* C1: for a record type with a member that refers back to the same type,
\* after a returned pass the table holds exactly one entry for the type and
\* the self-referring member's propType is ref(i), i the entry's own index.
C1_SelfReferenceResolvesToOwnIndex ==
  status = "returned" =>
    \A i \in 1..Len(reservedFor) :
      LET t == reservedFor[i] IN
        \A k \in 1..Len(getProperties(t)) :
          (Unwrap(getProperties(t)[k].type) = t
             /\ StaticRule(getProperties(t)[k].type) = "object")
          => /\ Cardinality({j \in 1..Len(reservedFor) : reservedFor[j] = t}) = 1
             /\ Len(result.refs[i].members) >= k
             /\ result.refs[i].members[k].propType = refPropType(i - 1)

C1_Witness ==
  /\ status = "returned"
  /\ "Foo" \in Stored
  /\ Len(result.refs) >= 2
  /\ result.refs[FirstIndex("Foo") + 1].members[1].propType
       = refPropType(FirstIndex("Foo"))

\* C2: a pass over a type graph in which every cycle passes through a record
\* stored by storeRef never exhausts the call stack (it terminates).
C2_TerminatesWhenCyclesPassThroughRecords ==
  CyclesPassThroughRecords => status # "overflow"

C2_Witness ==
  /\ status = "returned"
  /\ {"Tree", "Leaf", "Foo"} \subseteq Stored
  /\ hits >= 3

\* C3: a pass terminates on every finite type graph, also on one with a cycle
\* through union, array or callable nodes only.
C3_TerminatesOnEveryGraph == status # "overflow"

C5_StoredNodeReturnsFirstIndex ==
  [][(InFrame("storeRef", "enter") /\ Top.typ \in Stored)
       => /\ ret' = IndexRet(FirstIndex(Top.typ))
          /\ Len(refs') = Len(refs)
          /\ Len(stack') = Len(stack) - 1]_vars

C5_Witness ==
  /\ hits >= 1
  /\ ret.kind = "index"
  /\ ret.index < Len(refs) - 1
  /\ \E t \in Stored : FirstIndex(t) = ret.index /\ memberWalks[t] = 1

\* C6: two distinct type nodes never share a reference index, and every
\* record node storeRef was called on owns the entry at its index.
C6_DistinctNodesDistinctIndices ==
  /\ \A t1 \in DOMAIN assigned, t2 \in DOMAIN assigned :
       t1 # t2 => assigned[t1] # assigned[t2]
  /\ \A t \in DOMAIN assigned :
       assigned[t] < Len(reservedFor) /\ reservedFor[assigned[t] + 1] = t

C6_Witness ==
  /\ status = "returned"
  /\ {"Anon1", "Anon2"} \subseteq DOMAIN assigned
  /\ assigned["Anon1"] # assigned["Anon2"]
  /\ result.refs[assigned["Anon1"] + 1] = result.refs[assigned["Anon2"] + 1]

\* C7: in a returned FinderResult every ref or partial index anywhere in refs
\* and every propsRefIndex lies in 0 .. refs.length - 1.
C7_IndicesValidInResult ==
  status = "returned" =>
    /\ \A i \in 1..Len(result.refs) :
         \A k \in 1..Len(result.refs[i].members) :
           \A n \in RefIndices(result.refs[i].members[k].propType) :
             0 <= n /\ n < Len(result.refs)
    /\ \A c \in 1..Len(result.components) :
         /\ 0 <= result.components[c].propsRefIndex
         /\ result.components[c].propsRefIndex < Len(result.refs)

C7_Witness ==
  /\ status = "returned"
  /\ Len(result.components) = 2
  /\ \E i \in 1..Len(result.refs) :
       \E k \in 1..Len(result.refs[i].members) :
         /\ result.refs[i].members[k].propType.kind \in {"array", "union", "fn"}
         /\ RefIndices(result.refs[i].members[k].propType) # {}

\* C8: in a returned FinderResult no entry is the placeholder: every slot
\* holds the completed ObjectSpec of the type it was reserved for.
C8_NoPlaceholderInResult ==
  status = "returned" =>
    /\ Len(result.refs) = Len(reservedFor)
    /\ \A i \in 1..Len(result.refs) :
         LET t == reservedFor[i]
             e == result.refs[i]
         IN /\ e # placeholderRef
            /\ e.name = RefName(t)
            /\ Len(e.members) = Len(getProperties(t))
            /\ \A k \in 1..Len(e.members) :
                 e.members[k].name = getProperties(t)[k].name

C8_Witness ==
  /\ status = "returned"
  /\ Len(result.refs) >= 3

\* C9: within a pass refs.length never decreases, the index recorded for a
\* type never changes, and a patched entry is never overwritten or moved.
C9_TableAppendOnly ==
  [][passNo' = passNo
       => /\ Len(refs') >= Len(refs)
          /\ \A t \in DOMAIN refNdxMap :
               t \in DOMAIN refNdxMap' /\ refNdxMap'[t] = refNdxMap[t]
          /\ \A i \in 1..Len(refs) :
               refs[i] # placeholderRef => refs'[i] = refs[i]]_vars

C9_Witness ==
  /\ status = "running"
  /\ \E i \in 1..Len(refs) : \E j \in 1..Len(refs) :
       i < j /\ refs[i] # placeholderRef /\ refs[j] = placeholderRef

\* C10: a property typed T | undefined is classified with isNullable = true
\* and with exactly the propType that classifying T on its own yields.
C10_NullablePropTypeSameAsPlain ==
  (/\ status = "returned"
   /\ "PropsA" \in Stored
   /\ Types[wiring.q].isNullable
   /\ Types[wiring.q].nonNullable = wiring.p)
  => LET e == result.refs[FirstIndex("PropsA") + 1] IN
       /\ e.members[2].isNullable
       /\ e.members[2].propType = e.members[1].propType

\* C11: no ObjectMember of the table and no PropSpec returned by
\* typeToPropSpec has propType void together with isNullable = true, also
\* when a nullable wrapper surrounds a void-like type.
C11_VoidNeverNullable ==
  /\ \A i \in 1..Len(refs) :
       \A k \in 1..Len(refs[i].members) :
         ~(refs[i].members[k].propType.kind = "void"
             /\ refs[i].members[k].isNullable)
  /\ ret.kind = "propSpec"
       => ~(ret.propSpec.propType.kind = "void" /\ ret.propSpec.isNullable)

\* C12: a property whose type (under its nullable wrapper, if any) has a
\* symbol with an entry in knownSymbolPropTypes is classified as the
\* registered variant, never as ref, fn, union or anything else.
C12_KnownSymbolGetsRegisteredVariant ==
  (status = "returned" /\ "PropsA" \in Stored)
  => \A k \in 1..Len(getProperties("PropsA")) :
       LET t == Unwrap(getProperties("PropsA")[k].type)
           sym == Types[t].symbol
           e == result.refs[FirstIndex("PropsA") + 1]
       IN (sym # NoSym /\ KnownOf(sym) # Undefined)
            => e.members[k].propType = KnownOf(sym)

\* the propType that classifying the union constituent c on its own yields:
\* the value of the leaf rules, ref(index of c) for a record
OptionOf(c) ==
  IF StaticRule(c) = "object"
    THEN refPropType(FirstIndex(c))
    ELSE Immediate(StaticRule(c), KnownOf(Types[c].symbol), Undefined, c)

\* the (entry, member) positions of a table whose type takes the union rule
UnionPositions(table) ==
  UNION {{<<i, k>> : k \in {k \in 1..Len(getProperties(reservedFor[i])) :
                       StaticRule(getProperties(reservedFor[i])[k].type)
                         = "union"}} :
         i \in 1..Len(table)}

C14_TupleAndArrayVariants ==
  ("PropsA" \in Stored /\ status \in {"returned", "thrown", "overflow"})
  => /\ Types[wiring.p].isTuple
          => /\ status = "returned"
             /\ result.refs[FirstIndex("PropsA") + 1].members[1].propType
                  = [kind |-> "tuple",
                     elements |->
                       [j \in 1..Len(Types[wiring.p].tupleElements) |->
                          OptionOf(Types[wiring.p].tupleElements[j])]]
     /\ (status = "returned" /\ wiring.p = "StringArr")
          => result.refs[FirstIndex("PropsA") + 1].members[1].propType
               = arrayPropType(stringPropType)

\* the marker React.Component lies on the base-type chain of t at some depth
RECURSIVE ReachesMarker(_)
ReachesMarker(t) ==
  \/ /\ Types[t].symbol # NoSym
     /\ Symbols[Types[t].symbol].fqn = "React.Component"
  \/ \E k \in 1..Len(Types[t].baseTypes) :
       ReachesMarker(Types[t].baseTypes[k])

\* C15: a class is recognised as a component exactly when the marker
\* React.Component is reachable through its chain of base types at any
\* depth: directly, through base types that have a symbol of their own, or
\* through base types without symbol.
C15_RecognisedIffMarkerReachable ==
  AtClass =>
    ((FindBaseType(classes[ci]) # NoType)
       <=> \E k \in 1..Len(ClassDecls[classes[ci]].baseTypes) :
             ReachesMarker(ClassDecls[classes[ci]].baseTypes[k]))

\* C16: a class that derives from the marker but whose marker base type has
\* no first type argument is passed over: no ComponentSpec is appended and
\* no table entry is created for it.
C16_NoPropsArgNoComponent ==
  [][(/\ AtClass
      /\ FindBaseType(classes[ci]) # NoType
      /\ Len(Types[FindBaseType(classes[ci])].typeArguments) = 0)
     => /\ ci' = ci + 1
        /\ components' = components
        /\ refs' = refs
        /\ refNdxMap' = refNdxMap
        /\ status' = status]_vars

C16_Witness ==
  /\ status = "returned"
  /\ classes = <<"NoArg">>
  /\ result.components = <<>>
  /\ result.refs = <<>>

\* the class c has the marker nowhere on its chain of base types
NotDeriving(c) ==
  \A k \in 1..Len(ClassDecls[c].baseTypes) :
    ~ReachesMarker(ClassDecls[c].baseTypes[k])

\* C17: a class that does not derive from the marker leaves components and
\* the table as they are and raises no error; a source file whose classes
\* all are of that kind, or that has no class, returns the empty result.
C17_NonComponentLeavesResultUnchanged ==
  [][/\ (AtClass /\ NotDeriving(classes[ci]))
          => /\ ci' = ci + 1
             /\ components' = components
             /\ refs' = refs
             /\ refNdxMap' = refNdxMap
             /\ status' = "running"
     /\ (\A k \in 1..Len(classes') : NotDeriving(classes'[k]))
          => /\ status' \in {"idle", "running", "returned"}
             /\ status' = "returned"
                  => result'.components = <<>> /\ result'.refs = <<>>]_vars

C17_Witness ==
  /\ status = "returned"
  /\ classes = <<"Plain">>
  /\ result.components = <<>>
  /\ result.refs = <<>>

\* the class c has a recognised marker base type that binds a first type
\* argument, and that argument
BindsProps(c) ==
  /\ FindBaseType(c) # NoType
  /\ Len(Types[FindBaseType(c)].typeArguments) > 0

PropsOf(c) == Types[FindBaseType(c)].typeArguments[1]

\* C18: in a returned result the ComponentSpecs are, in source order, one
\* per class that derives from the marker and binds a props argument, each
\* with the class's name and the index storeRef gave its props type; the
\* single class TestC extends React.Component<{foo: string}, {}> yields
\* components = [{TestC, 0}] and one entry with the member foo: string,
\* isNullable false.
C18_OneComponentPerBoundClass ==
  status = "returned" =>
    LET bound == SelectSeq(classes, BindsProps) IN
      /\ Len(result.components) = Len(bound)
      /\ \A j \in 1..Len(bound) :
           /\ result.components[j].name = ClassDecls[bound[j]].name
           /\ PropsOf(bound[j]) \in Stored
           /\ result.components[j].propsRefIndex = FirstIndex(PropsOf(bound[j]))
      /\ classes = <<"TestC">>
           => /\ result.components = <<[name |-> "TestC", propsRefIndex |-> 0]>>
              /\ result.refs =
                   <<objectSpec(NullName,
                       <<propertyToObjectMember("foo",
                           PropSpec(stringPropType, FALSE))>>)>>

C18_Witness ==
  /\ status = "returned"
  /\ classes = <<"TestC", "TestA">>
  /\ result.components = <<[name |-> "TestC", propsRefIndex |-> 0],
                           [name |-> "TestA", propsRefIndex |-> 1]>>

\* C19: classes that bind the identical props node get ComponentSpecs with
\* equal propsRefIndex and the later one adds no entry to the table; with
\* TestA and TestB binding PropsA, whose properties are strings,
\* refs.length is 1.
C19_SiblingsShareOneEntry ==
  status = "returned" =>
    LET bound == SelectSeq(classes, BindsProps) IN
      /\ \A i \in 1..Len(result.components) :
           \A j \in 1..Len(result.components) :
             PropsOf(bound[i]) = PropsOf(bound[j])
               => result.components[i].propsRefIndex
                    = result.components[j].propsRefIndex
      /\ Len(result.refs) = Cardinality(Stored)
      /\ (/\ classes = <<"TestA", "TestB">>
          /\ wiring = [p |-> "string", q |-> "string"])
           => Len(result.refs) = 1

C19_Witness ==
  /\ status = "returned"
  /\ classes = <<"TestA", "TestB">>
  /\ wiring = [p |-> "string", q |-> "string"]
  /\ result.components = <<[name |-> "TestA", propsRefIndex |-> 0],
                           [name |-> "TestB", propsRefIndex |-> 0]>>
  /\ Len(result.refs) = 1

C21_PassNeverRaises == status # "thrown"

\* C22: every pass starts with an empty components list, table and memo;
\* the passes over one source file have the same outcome and return equal
\* FinderResults, and a result handed back is not changed by a later pass.
C22_PassesIndependent ==
  [][/\ passNo' # passNo
          => components' = <<>> /\ refs' = <<>> /\ refNdxMap' = EmptyMap
     /\ Len(earlier') >= Len(earlier)
     /\ \A i \in 1..Len(earlier) : earlier'[i] = earlier[i]
     /\ \A i \in 1..Len(earlier') : earlier'[i] = earlier'[1]
     /\ status' = "returned"
          => Len(earlier') = passNo' /\ earlier'[passNo'] = result'
     /\ status' \in {"thrown", "overflow"} => earlier' = <<>>]_vars

C22_Witness ==
  /\ status = "returned"
  /\ passNo = 2
  /\ Len(earlier) = 2
  /\ earlier[1] = earlier[2]
  /\ Len(earlier[2].components) = 2
  /\ Len(earlier[2].refs) >= 3

\* the first rule that matches the type t in the order known symbol,
\* callable, void-like, string, number, boolean, literal value, boolean
\* literal, tuple, array, union, object, any
RuleInOrder(t) ==
  CASE KnownOf(SymbolOrAlias(t)) # Undefined -> "known"
    [] SymbolOrAlias(t) # NoSym /\ IsSignature(SymbolOrAlias(t)) -> "fn"
    [] isTypeVoid(t) -> "void"
    [] Types[t].isString -> "string"
    [] Types[t].isNumber -> "number"
    [] Types[t].isBoolean -> "boolean"
    [] Types[t].isLiteral -> "literal"
    [] Types[t].isBooleanLiteral -> "booleanLiteral"
    [] Types[t].isTuple -> "tuple"
    [] Types[t].isArray -> "array"
    [] Types[t].isUnion -> "union"
    [] Types[t].isObject -> "object"
    [] OTHER -> "any"

\* C23: for every type node, after the nullability unwrap, the classifier
\* applies the first rule that matches in the fixed order known symbol,
\* callable, void-like, string, number, boolean, literal value, boolean
\* literal, tuple, array, union, object, and any only when none matches.
C23_FirstMatchingRuleWins ==
  AtDispatch => RuleOf(Locals(Top)) = RuleInOrder(Locals(Top).typ)

\* the depths of the call stack stk at which storeRef is examining the
\* members of a record
ExaminingMembers(stk) ==
  {d \in 1..Len(stk) : stk[d].fn = "storeRef" /\ stk[d].pc = "members"}

\* C24: while any member of a record type T is being classified, T is
\* recorded in the memo and refs has a slot at T's index, and a nested
\* storeRef(T) returns that index without examining T again.
C24_ReservedBeforeMembers ==
  [][/\ \A d \in ExaminingMembers(stack') :
          /\ stack'[d].typ \in DOMAIN refNdxMap'
          /\ refNdxMap'[stack'[d].typ] = stack'[d].ndx
          /\ stack'[d].ndx < Len(refs')
     /\ \A d \in ExaminingMembers(stack) :
          (InFrame("storeRef", "enter") /\ Top.typ = stack[d].typ)
            => /\ stack' = Pop
               /\ ret' = IndexRet(stack[d].ndx)
               /\ refs' = refs]_vars

C24_Witness ==
  /\ InFrame("storeRef", "enter")
  /\ \E d \in ExaminingMembers(stack) :
       /\ stack[d].typ = Top.typ
       /\ refNdxMap[Top.typ] = stack[d].ndx
       /\ refs[stack[d].ndx + 1] = placeholderRef

\* the PropSpec that classifying the parameter or return type t yields
SpecOf(t) == PropSpec(OptionOf(Unwrap(t)), Types[t].isNullable)

\* C25: a property whose type (under its nullable wrapper, if any) is
\* declared by a signature is classified as fn(args, returnType), never as
\* ref: one PropSpec per declared parameter in declaration order, a
\* constrained type parameter classified as its constraint, and returnType
\* the classification of the declared return type.
C25_SignatureClassifiedAsFn ==
  (status = "returned" /\ "PropsA" \in Stored)
  => \A k \in 1..Len(getProperties("PropsA")) :
       LET sym == SymbolOrAlias(Unwrap(getProperties("PropsA")[k].type))
           pt == result.refs[FirstIndex("PropsA") + 1].members[k].propType
       IN (sym # NoSym /\ IsSignature(sym))
            => /\ pt.kind = "fn"
               /\ Len(pt.argTypes) = Len(Symbols[sym].params)
               /\ \A j \in 1..Len(Symbols[sym].params) :
                    pt.argTypes[j] = SpecOf(ParamType(Symbols[sym].params[j]))
               /\ pt.returnType = SpecOf(Symbols[sym].ret)

\* C26: a string or number literal type is classified as literal(value)
\* with exactly its value, never widened to string or number; a boolean
\* literal type is classified as literal(true) when its text is "true" and
\* as literal(false) otherwise.
C26_LiteralsKeepTheirValue ==
  [][AtDispatch =>
       LET typ == Types[Unwrap(Top.typ)] IN
         /\ typ.isLiteral
              => /\ ret'.kind = "propSpec"
                 /\ ret'.propSpec.propType
                      = [kind |-> "literal", value |-> typ.value]
         /\ typ.isBooleanLiteral
              => /\ ret'.kind = "propSpec"
                 /\ ret'.propSpec.propType
                      = [kind |-> "literal",
                         value |-> IF typ.text = "true"
                                     THEN <<"boolean", "true">>
                                     ELSE <<"boolean", "false">>]]_vars

C26_Witness ==
  /\ status = "returned"
  /\ "PropsA" \in Stored
  /\ wiring.p = "lit1"
  /\ result.refs[FirstIndex("PropsA") + 1].members[1].propType
       = [kind |-> "literal", value |-> <<"number", "1">>]

\* typeToPropSpec is entered with a type whose symbol (or alias symbol) has
\* an entry in knownSymbolPropTypes
EntersKnown ==
  /\ InFrame("typeToPropSpec", "enter")
  /\ SymbolOrAlias(Top.typ) # NoSym
  /\ knownSymbolPropTypes(Symbols[SymbolOrAlias(Top.typ)].fqn) # Undefined

\* C27: classifying a type that resolves through the Known-Symbol Registry
\* returns the registered variant without structural analysis: no
\* parameter, return type or member is classified and the table and the
\* memo stay exactly as they were before the call.
C27_KnownSymbolNoStructuralAnalysis ==
  [][EntersKnown
       => /\ stack' = Pop
          /\ ret' = SpecRet(PropSpec(
                      knownSymbolPropTypes(Symbols[SymbolOrAlias(Top.typ)].fqn),
                      Types[Top.typ].isNullable))
          /\ refs' = refs
          /\ refNdxMap' = refNdxMap
          /\ walks' = walks
          /\ memberWalks' = memberWalks]_vars

C27_Witness ==
  /\ status = "running"
  /\ ret = SpecRet(PropSpec(eventPropType, FALSE))
  /\ refs = <<placeholderRef>>
  /\ DOMAIN refNdxMap = {"PropsA"}
  /\ walks["Event"] = 0

\* the ref indices held by the frame f: in the members, parameters or
\* options collected so far and in the fn variant already built
FrameIndices(f) ==
  RefIndices(f.fnProp) \cup
  UNION {RefIndices(IF f.fn = "typeToPropSpec" THEN f.acc[j]
                    ELSE f.acc[j].propType) : j \in 1..Len(f.acc)}

\* the ref indices emitted so far: into the entries of the table, the frames
\* of the call stack, the value just returned and the ComponentSpecs
EmittedIndices ==
  UNION {UNION {RefIndices(refs[i].members[k].propType) :
                  k \in 1..Len(refs[i].members)} : i \in 1..Len(refs)}
    \cup UNION {FrameIndices(stack[d]) : d \in 1..Len(stack)}
    \cup (CASE ret.kind = "index" -> {ret.index}
            [] ret.kind = "propSpec" -> RefIndices(ret.propSpec.propType)
            [] ret.kind = "fnPropType" -> RefIndices(ret.propType)
            [] OTHER -> {})
    \cup {components[c].propsRefIndex : c \in 1..Len(components)}

\* C28: at every point of a pass the memo is a bijection between the type
\* nodes registered so far and the indices 0 .. refs.length - 1, and every
\* ref index already emitted into a member list, a PropSpec under
\* construction or a ComponentSpec is smaller than the current refs.length.
C28_MemoBijectionAtEveryPoint ==
  /\ Cardinality(DOMAIN refNdxMap) = Len(refs)
  /\ {refNdxMap[t] : t \in DOMAIN refNdxMap} = 0..(Len(refs) - 1)
  /\ \A t \in DOMAIN refNdxMap : reservedFor[refNdxMap[t] + 1] = t
  /\ \A n \in EmittedIndices : 0 <= n /\ n < Len(refs)

C28_Witness ==
  /\ status = "running"
  /\ Len(stack) >= 3
  /\ Len(refs) >= 3
  /\ \E i \in 1..Len(refs) : refs[i] = placeholderRef
  /\ \E d \in 1..Len(stack) : FrameIndices(stack[d]) # {}

\* C29: the classification of an array element keeps the propType only: a
\* property typed (T | undefined)[] has the output of one typed T[], that
\* is array(propType of classifying T); the parameters and the return type
\* of a callable keep their own isNullable.
C29_ElementNullabilityDiscarded ==
  (status = "returned" /\ "PropsA" \in Stored)
  => \A k \in 1..Len(getProperties("PropsA")) :
       LET typ == Types[getProperties("PropsA")[k].type]
           m == result.refs[FirstIndex("PropsA") + 1].members[k]
       IN /\ (typ.isArray /\ Types[typ.elem].isNullable)
               => m.propType
                    = arrayPropType(OptionOf(Types[typ.elem].nonNullable))
          /\ m.propType.kind = "fn"
               => /\ \A j \in 1..Len(m.propType.argTypes) :
                       m.propType.argTypes[j].isNullable
                         = Types[Symbols[typ.symbol].params[j]].isNullable
                  /\ m.propType.returnType.isNullable
                       = Types[Symbols[typ.symbol].ret].isNullable

\* C30: the props type argument of a component goes to storeRef directly,
\* not through the classification rules: for every ComponentSpec of a
\* returned result, refs[propsRefIndex] is the record entry with one member
\* per property of the props type node, in enumeration order, whatever the
\* shape of that type (a known-symbol type is stored as a record too).
C30_PropsArgStoredDirectly ==
  [][/\ (AtClass /\ BindsProps(classes[ci]))
          => stack' = <<Frame("storeRef", PropsOf(classes[ci]), NoSym)>>
     /\ status' = "returned"
          => LET bound == SelectSeq(classes, BindsProps) IN
               /\ Len(result'.components) = Len(bound)
               /\ \A j \in 1..Len(bound) :
                    LET e == result'.refs[result'.components[j].propsRefIndex + 1]
                        props == getProperties(PropsOf(bound[j]))
                    IN /\ Len(e.members) = Len(props)
                       /\ \A k \in 1..Len(props) :
                            e.members[k].name = props[k].name]_vars

C30_Witness ==
  /\ status = "returned"
  /\ classes = <<"TestE">>
  /\ result.components = <<[name |-> "TestE", propsRefIndex |-> 0]>>
  /\ result.refs =
       <<objectSpec("SyntheticEvent",
           <<propertyToObjectMember("type", PropSpec(stringPropType, FALSE))>>)>>

====
